---- MODULE Spec2Model ----
(***************************************************************************)
(* Verification model of ldc-shop's card-pulling pipeline                  *)
(* (_workers_next/src/lib/card-api.ts) and of the admin update banner      *)
(* (_workers_next/src/components/admin/update-notification.tsx).           *)
(*                                                                         *)
(* Strings are sequences of one-character strings, so that trim() is a    *)
(* computation.  Decoded JSON values are tagged records.                   *)
(***************************************************************************)
EXTENDS Integers, Sequences, FiniteSets, TLC

VARIABLES
    \* ---- extractCardKey, applied to one decoded payload
    payload,        \* the decoded response body handed to extractCardKey
    extracted,      \* <<>> before the call, <<result>> after it
    \* ---- pullOneCardFromApi, one entry per invocation
    pc,             \* where the invocation is suspended / how it ended
    productOf,      \* the productId argument
    config,         \* the resolved ProductCardApiConfig (or NoConfig)
    response,       \* the upstream response the invocation received
    cardKey,        \* the extracted card key
    outcomes,       \* the outcome values returned to the caller (a sequence)
    thrown,         \* the exceptions that escaped to the caller (a sequence)
    httpCalls,      \* outbound GETs issued
    decodes,        \* response.json()/response.text() calls
    extractCalls,   \* extractCardKey calls
    insertAttempts, \* db.insert(cards) calls
    storeResult,    \* how the store answered the insert
    cards,          \* the cards table: rows in insertion order
    \* ---- UpdateNotification
    stored,         \* localStorage['dismissed_update_version']
    mounted,        \* whether the component is mounted
    mountNo,        \* how many times it has been mounted
    currentVersion, \* the currentVersion prop
    updateInfo,     \* useState: ClientUpdateCheckResult | null
    dismissed,      \* useState: boolean
    pending,        \* update checks in flight (effects not yet resolved)
    qualified,      \* history: a check of this mount resolved with a fresh update
    dismissedHere   \* history: the version dismissed during this mount

extractVars == <<payload, extracted>>
pullVars == <<pc, productOf, config, response, cardKey, outcomes, thrown,
              httpCalls, decodes, extractCalls, insertAttempts, storeResult, cards>>
bannerVars == <<stored, mounted, mountNo, currentVersion, updateInfo, dismissed,
                pending, qualified, dismissedHere>>
vars == <<extractVars, pullVars, bannerVars>>

\* Each specification exercises one part and leaves the others in these states.
ExtractQuiet == payload = [t |-> "null"] /\ extracted = <<>>

PullQuiet ==
    /\ pc = <<>> /\ productOf = <<>> /\ config = <<>> /\ response = <<>>
    /\ cardKey = <<>> /\ outcomes = <<>> /\ thrown = <<>> /\ httpCalls = <<>>
    /\ decodes = <<>> /\ extractCalls = <<>> /\ insertAttempts = <<>>
    /\ storeResult = <<>> /\ cards = <<>>

BannerQuiet ==
    /\ stored = <<>> /\ mounted = FALSE /\ mountNo = 0 /\ currentVersion = <<>>
    /\ updateInfo = <<>> /\ dismissed = FALSE /\ pending = {}
    /\ qualified = FALSE /\ dismissedHere = <<>>

----------------------------------------------------------------------------
(* Strings *)

\* The characters String.prototype.trim removes (those the model uses).
WhiteSpace == {" ", "\n", "\t"}

RECURSIVE TrimStart(_)
TrimStart(s) ==
    IF s = <<>> THEN <<>>
    ELSE IF Head(s) \in WhiteSpace THEN TrimStart(Tail(s))
    ELSE s

RECURSIVE TrimEnd(_)
TrimEnd(s) ==
    IF s = <<>> THEN <<>>
    ELSE IF s[Len(s)] \in WhiteSpace THEN TrimEnd(SubSeq(s, 1, Len(s) - 1))
    ELSE s

\* A trim that forgets the trailing side.
TrimLeadingOnly(s) == TrimStart(s)

\* String.prototype.trim
Trim(s) == TrimEnd(TrimStart(s))

----------------------------------------------------------------------------
(* Decoded payloads *)

JNull == [t |-> "null"]
JUndefined == [t |-> "undefined"]
JBool(b) == [t |-> "bool", b |-> b]
JNum(n) == [t |-> "num", n |-> n]
JStr(s) == [t |-> "str", s |-> s]
JArr(items) == [t |-> "arr", items |-> items]
JObj(fields) == [t |-> "obj", fields |-> fields]

\* JavaScript truthiness of a decoded value (the test `!payload`).
Truthy(p) ==
    CASE p.t = "null" -> FALSE
      [] p.t = "undefined" -> FALSE
      [] p.t = "bool" -> p.b
      [] p.t = "num" -> p.n # 0
      [] p.t = "str" -> p.s # <<>>
      [] OTHER -> TRUE

\* payload?.[k]
Member(p, k) == IF k \in DOMAIN p.fields THEN p.fields[k] ELSE JUndefined

\* A direct-key order with the first two keys exchanged.
directKeysSwapped == <<"card", "cardKey", "key", "code">>

directKeys == <<"cardKey", "card", "key", "code">>

nestedKeys == <<"data", "result", "item">>

RECURSIVE extractCardKey(_), ScanArray(_, _), ProbeDirect(_, _), ProbeNested(_, _)

\* An array scan that returns the first element's extraction, empty or not.
ScanArrayFirstOnly(items, i) ==
    IF i > Len(items) THEN <<>> ELSE extractCardKey(items[i])

\* for (const item of payload) { const value = extractCardKey(item); if (value) return value }
ScanArray(items, i) ==
    IF i > Len(items) THEN <<>>
    ELSE LET value == extractCardKey(items[i])
         IN  IF value # <<>> THEN value ELSE ScanArray(items, i + 1)

\* for (const k of directKeys) { const v = payload?.[k]; if (typeof v === "string" && v.trim()) return v.trim() }
\* Falls through to the nested probe when no direct key qualifies.
ProbeDirect(p, i) ==
    IF i > Len(directKeys) THEN ProbeNested(p, 1)
    ELSE LET v == Member(p, directKeys[i])
         IN  IF v.t = "str" /\ Trim(v.s) # <<>> THEN Trim(v.s)
             ELSE ProbeDirect(p, i + 1)

\* for (const k of nestedKeys) { const value = extractCardKey(payload?.[k]); if (value) return value }
ProbeNested(p, i) ==
    IF i > Len(nestedKeys) THEN <<>>
    ELSE LET value == extractCardKey(Member(p, nestedKeys[i]))
         IN  IF value # <<>> THEN value ELSE ProbeNested(p, i + 1)

extractCardKey(p) ==
    IF ~Truthy(p) THEN <<>>
    ELSE IF p.t = "str" THEN Trim(p.s)
    ELSE IF p.t = "arr" THEN ScanArray(p.items, 1)
    ELSE IF p.t = "obj" THEN ProbeDirect(p, 1)
    ELSE <<>>

----------------------------------------------------------------------------
(* Bounded payloads for the extractor *)

MaxArrLen == 2
MaxKeys == 2

ObjectKeys == {"cardKey", "card", "key", "code", "data", "result", "item"}

\* Scalars: null, false, a number, a whitespace-only string, two card codes.
Leaves ==
    { JNull, JBool(FALSE), JNum(7),
      JStr(<<" ">>), JStr(<<"A">>), JStr(<<" ", "B", "\n">>) }

InnerLeaves == { JNull, JStr(<<" ">>), JStr(<<"C">>) }

\* Sequences over S of length at most n.
SeqsUpTo(S, n) == UNION { [1..k -> S] : k \in 0..n }

\* Objects with at most n of the given keys, valued in S.
ObjectsOver(K, S, n) ==
    UNION { [D -> S] : D \in { D \in SUBSET K : Cardinality(D) <= n } }

\* One level of container around the inner leaves.
InnerValues ==
    Leaves
    \cup { JArr(q) : q \in SeqsUpTo(InnerLeaves, 1) }
    \cup { JObj(f) : f \in ObjectsOver({"code", "key", "data"}, InnerLeaves, 1) }

Payloads ==
    InnerValues
    \cup { JArr(q) : q \in SeqsUpTo(InnerValues, MaxArrLen) }
    \cup { JObj(f) : f \in ObjectsOver(ObjectKeys, InnerValues, MaxKeys) }

----------------------------------------------------------------------------
(* Errors: the message and the JSON serialisation, as sequences of text pieces *)

ErrNoSettingsTable ==
    [message |-> <<"no such table", ": ", "settings">>, json |-> <<"{}">>]
ErrDatabaseDown ==
    [message |-> <<"D1_ERROR", ": ", "Network connection lost">>, json |-> <<"{}">>]
ErrNetwork == [message |-> <<"fetch failed">>, json |-> <<"{}">>]
ErrJsonSyntax == [message |-> <<"Unexpected token", " in JSON">>, json |-> <<"{}">>]
ErrUnique ==
    [message |-> <<"UNIQUE", " ", "constraint failed", ": ", "cards.card_key">>,
     json |-> <<"{}">>]
ErrForeignKey ==
    [message |-> <<"FOREIGN KEY", " ", "constraint failed">>, json |-> <<"{}">>]
ErrDiskIO == [message |-> <<"disk I/O error">>, json |-> <<"{}">>]
ErrNoMessage == [message |-> <<>>, json |-> <<"{}">>]

\* String.prototype.toLowerCase, piece by piece.
LowerPiece(w) ==
    CASE w = "UNIQUE" -> "unique"
      [] w = "FOREIGN KEY" -> "foreign key"
      [] w = "D1_ERROR" -> "d1_error"
      [] w = "Network connection lost" -> "network connection lost"
      [] w = "Unexpected token" -> "unexpected token"
      [] w = " in JSON" -> " in json"
      [] w = "disk I/O error" -> "disk i/o error"
      [] w = "Application/JSON" -> "application/json"
      [] OTHER -> w
ToLowerCase(text) == [i \in 1..Len(text) |-> LowerPiece(text[i])]

\* String.prototype.includes, at the granularity of the pieces.
Includes(text, piece) == \E i \in 1..Len(text) : text[i] = piece

\* `${error?.message || ""}${JSON.stringify(error || {})}`.toLowerCase()
ErrorText(error) == ToLowerCase(error.message \o error.json)

\* A detector that never recognises a uniqueness violation.
isUniqueConstraintErrorNever(error) == FALSE

isUniqueConstraintError(error) ==
    Includes(ErrorText(error), "unique") \/ Includes(ErrorText(error), "constraint failed")

----------------------------------------------------------------------------
(* Settings *)

Products == {"p1"}

keyOf(productId, field) == <<"cards_api_", field, "_", productId>>

TrueText == <<"t", "r", "u", "e">>
FalseText == <<"f", "a", "l", "s", "e">>

\* What the settings table may hold under each of a product's three keys:
\* no row, a NULL value, or a string.
EnabledValues == { JUndefined, JNull, JStr(TrueText), JStr(FalseText), JStr(<<" ">> \o TrueText) }
UrlValues ==
    { JUndefined, JStr(<<>>), JStr(<<" ">>), JStr(<<"u">>), JStr(<<"u", ":">>),
      JStr(<<" ", "u", ":", "\n">>) }
TokenValues == { JUndefined, JStr(<<" ", "k", " ">>) }

\* The rows a select of the product's three keys returns.
RowsOf(p, e, u, k) ==
    LET all == (keyOf(p, "enabled") :> e) @@ (keyOf(p, "url") :> u)
               @@ (keyOf(p, "token") :> k)
    IN  [key \in { key \in DOMAIN all : all[key].t # "undefined" } |-> all[key]]

SelectAnswers(p) ==
    { [kind |-> "rows", rows |-> RowsOf(p, e, u, k)] :
          e \in EnabledValues, u \in UrlValues, k \in TokenValues }
    \cup { [kind |-> "error", error |-> err] : err \in {ErrNoSettingsTable, ErrDatabaseDown} }

\* getSettingsUncached: the key -> value map, or the error it rethrows.
getSettingsUncached(answer) ==
    IF answer.kind = "rows"
    THEN [threw |-> FALSE,
          map |-> [key \in DOMAIN answer.rows |->
                       IF answer.rows[key].t = "str" THEN answer.rows[key].s ELSE <<>>]]
    ELSE IF /\ Includes(ErrorText(answer.error), "no such table")
            /\ Includes(ErrorText(answer.error), "settings")
    THEN [threw |-> FALSE, map |-> <<>>]
    ELSE [threw |-> TRUE, error |-> answer.error]

\* values[key] || ""
ValueOr(values, key) == IF key \in DOMAIN values THEN values[key] ELSE <<>>

getProductCardApiConfig(productId, values) ==
    [enabled |-> ValueOr(values, keyOf(productId, "enabled")) = TrueText,
     url |-> Trim(ValueOr(values, keyOf(productId, "url"))),
     token |-> Trim(ValueOr(values, keyOf(productId, "token")))]

\* new URL(text) succeeds: an absolute URL starts with a scheme and a colon.
SchemeChars == {"u"}
ParsesAsUrl(text) ==
    LET t == Trim(text)
    IN  \E i \in 2..Len(t) : t[i] = ":" /\ \A j \in 1..(i - 1) : t[j] \in SchemeChars

resolveApiUrl(rawUrl) ==
    LET trimmed == Trim(rawUrl)
    IN  IF trimmed = <<>> THEN [threw |-> FALSE, url |-> <<>>]
        ELSE IF ParsesAsUrl(trimmed) THEN [threw |-> FALSE, url |-> trimmed]
        ELSE [threw |-> TRUE, url |-> <<>>]

----------------------------------------------------------------------------
(* The upstream card API *)

Statuses == {200, 300, 404}

\* Response.ok
ResponseOk(status) == status >= 200 /\ status <= 299

\* The content-type header: absent, JSON (in mixed case, with a charset), text.
ContentTypes ==
    { <<>>, <<"Application/JSON", "; charset=utf-8">>, <<"text/plain">> }

JInvalid == [t |-> "invalid"]

\* What response.json() gives: a decoded value, or a syntax error.
JsonBodies ==
    { JObj("data" :> JObj("code" :> JStr(<<" ", "A", " ">>))),
      JArr(<< JNull, JObj("cardKey" :> JStr(<<"B">>)) >>),
      JObj(<<>>),
      JInvalid }

\* What response.text() gives.
TextBodies == { <<" ", "A", "\n">>, <<" ", "\n">>, <<>> }

FetchAnswers ==
    { [kind |-> "response", status |-> st, contentType |-> ct] :
          st \in Statuses, ct \in ContentTypes }
    \cup { [kind |-> "error", error |-> ErrNetwork] }

\* (response.headers.get("content-type") || "").toLowerCase().includes("application/json")
IsJsonContentType(contentType) ==
    Includes(ToLowerCase(contentType), "application/json")

----------------------------------------------------------------------------
(* The cards table *)

\* Whether the schema's uniqueness rule rejects the row.  The rule is on the
\* card key, per product or for the whole table; for rows of one product the
\* two readings agree.
Conflicts(rows, row) ==
    \E n \in 1..Len(rows) :
        rows[n].productId = row.productId /\ rows[n].cardKey = row.cardKey

\* How the store may answer db.insert(cards).values(row).
InsertAnswers(rows, row) ==
    (IF Conflicts(rows, row)
     THEN { [kind |-> "rejected", violation |-> "unique", error |-> ErrUnique] }
     ELSE { [kind |-> "accepted", violation |-> "none", error |-> ErrNoMessage] })
    \cup { [kind |-> "rejected", violation |-> "foreign_key", error |-> ErrForeignKey],
           [kind |-> "rejected", violation |-> "none", error |-> ErrDiskIO],
           [kind |-> "rejected", violation |-> "none", error |-> ErrNoMessage] }

NoAnswer == [kind |-> "none", violation |-> "none", error |-> ErrNoMessage]

----------------------------------------------------------------------------
(* pullOneCardFromApi *)

NumInvocations == 2
Invocations == 1..NumInvocations

NoConfig == [enabled |-> FALSE, url |-> <<>>, token |-> <<>>]

Failure(code) == [ok |-> FALSE, skipped |-> FALSE, error |-> code, cardKey |-> <<>>]
Skipped(code) == [ok |-> FALSE, skipped |-> TRUE, error |-> code, cardKey |-> <<>>]
Success(key) == [ok |-> TRUE, skipped |-> FALSE, error |-> <<>>, cardKey |-> key]

\* A config check that looks at the url before the enabled flag.
ConfigVerdictUrlFirst(cfg) ==
    IF cfg.url = <<>> THEN [go |-> FALSE, outcome |-> Failure(<<"api_url_missing">>)]
    ELSE IF ~cfg.enabled THEN [go |-> FALSE, outcome |-> Skipped(<<"api_disabled">>)]
    ELSE IF resolveApiUrl(cfg.url).threw
    THEN [go |-> FALSE, outcome |-> Failure(<<"api_url_invalid">>)]
    ELSE [go |-> TRUE, outcome |-> Failure(<<>>)]

\* Lines 108-120: the three configuration checks, in order.
ConfigVerdict(cfg) ==
    IF ~cfg.enabled THEN [go |-> FALSE, outcome |-> Skipped(<<"api_disabled">>)]
    ELSE IF cfg.url = <<>> THEN [go |-> FALSE, outcome |-> Failure(<<"api_url_missing">>)]
    ELSE IF resolveApiUrl(cfg.url).threw
    THEN [go |-> FALSE, outcome |-> Failure(<<"api_url_invalid">>)]
    ELSE [go |-> TRUE, outcome |-> Failure(<<>>)]

\* Lines 122-133: the GET request.
Request(cfg) ==
    [method |-> "GET",
     url |-> resolveApiUrl(cfg.url).url,
     headers |-> IF cfg.token # <<>>
                 THEN [Accept |-> <<"application/json, text/plain;q=0.9, */*;q=0.8">>,
                       Authorization |-> <<"Bearer ">> \o cfg.token]
                 ELSE [Accept |-> <<"application/json, text/plain;q=0.9, */*;q=0.8">>],
     cache |-> "no-store"]

\* A status check that lets redirects through as if they were successes.
FetchVerdictBelow400(status) ==
    IF status >= 400
    THEN [go |-> FALSE, outcome |-> Failure(<<"api_request_failed_", ToString(status)>>)]
    ELSE [go |-> TRUE, outcome |-> Failure(<<>>)]

\* Lines 135-137: `api_request_failed_${response.status}` unless response.ok.
FetchVerdict(status) ==
    IF ~ResponseOk(status)
    THEN [go |-> FALSE, outcome |-> Failure(<<"api_request_failed_", ToString(status)>>)]
    ELSE [go |-> TRUE, outcome |-> Failure(<<>>)]

\* Lines 158-165: the outcome of the insert.
InsertVerdict(answer, key) ==
    IF answer.kind = "accepted" THEN Success(key)
    ELSE IF isUniqueConstraintError(answer.error) THEN Failure(<<"api_card_duplicate">>)
    ELSE Failure(IF answer.error.message # <<>> THEN answer.error.message
                 ELSE <<"api_insert_failed">>)

InitPull ==
    /\ pc = [i \in Invocations |-> "idle"]
    /\ productOf = [i \in Invocations |-> "p1"]
    /\ config = [i \in Invocations |-> NoConfig]
    /\ response = [i \in Invocations |-> 0]
    /\ cardKey = [i \in Invocations |-> <<>>]
    /\ outcomes = [i \in Invocations |-> <<>>]
    /\ thrown = [i \in Invocations |-> <<>>]
    /\ httpCalls = [i \in Invocations |-> <<>>]
    /\ decodes = [i \in Invocations |-> 0]
    /\ extractCalls = [i \in Invocations |-> 0]
    /\ insertAttempts = [i \in Invocations |-> 0]
    /\ storeResult = [i \in Invocations |-> NoAnswer]
    /\ cards = <<>>
    /\ ExtractQuiet
    /\ BannerQuiet

Return(i, outcome) ==
    /\ pc' = [pc EXCEPT ![i] = "returned"]
    /\ outcomes' = [outcomes EXCEPT ![i] = Append(@, outcome)]
    /\ UNCHANGED thrown

Throw(i, error) ==
    /\ pc' = [pc EXCEPT ![i] = "threw"]
    /\ thrown' = [thrown EXCEPT ![i] = Append(@, error)]
    /\ UNCHANGED outcomes

Suspend(i, at) ==
    /\ pc' = [pc EXCEPT ![i] = at]
    /\ UNCHANGED <<outcomes, thrown>>

\* The caller invokes pullOneCardFromApi(productId); the settings select is issued.
Call(i, p) ==
    /\ pc[i] = "idle"
    /\ productOf' = [productOf EXCEPT ![i] = p]
    /\ Suspend(i, "select")
    /\ UNCHANGED <<config, response, cardKey, httpCalls, decodes, extractCalls,
                   insertAttempts, storeResult, cards,
                   extractVars, bannerVars>>

\* The select is answered: lines 107-133, up to the await of fetch.
SelectResolve(i, answer) ==
    /\ pc[i] = "select"
    /\ LET got == getSettingsUncached(answer)
           cfg == getProductCardApiConfig(productOf[i], got.map)
       IN  \/ /\ got.threw
              /\ Throw(i, got.error)
              /\ UNCHANGED <<config, httpCalls>>
           \/ /\ ~got.threw
              /\ ~ConfigVerdict(cfg).go
              /\ config' = [config EXCEPT ![i] = cfg]
              /\ Return(i, ConfigVerdict(cfg).outcome)
              /\ UNCHANGED httpCalls
           \/ /\ ~got.threw
              /\ ConfigVerdict(cfg).go
              /\ config' = [config EXCEPT ![i] = cfg]
              /\ httpCalls' = [httpCalls EXCEPT ![i] = Append(@, Request(cfg))]
              /\ Suspend(i, "fetch")
    /\ UNCHANGED <<productOf, response, cardKey, decodes, extractCalls,
                   insertAttempts, storeResult, cards,
                   extractVars, bannerVars>>

\* The fetch settles: lines 129-146, up to the await of json() or text().
FetchResolve(i, answer) ==
    /\ pc[i] = "fetch"
    /\ \/ /\ answer.kind = "error"
          /\ Throw(i, answer.error)
          /\ UNCHANGED <<response, decodes>>
       \/ /\ answer.kind = "response"
          /\ ~FetchVerdict(answer.status).go
          /\ response' = [response EXCEPT ![i] = answer.status]
          /\ Return(i, FetchVerdict(answer.status).outcome)
          /\ UNCHANGED decodes
       \/ /\ answer.kind = "response"
          /\ FetchVerdict(answer.status).go
          /\ response' = [response EXCEPT ![i] = answer.status]
          /\ decodes' = [decodes EXCEPT ![i] = @ + 1]
          /\ Suspend(i, IF IsJsonContentType(answer.contentType) THEN "json" ELSE "text")
    /\ UNCHANGED <<productOf, config, cardKey, httpCalls, extractCalls,
                   insertAttempts, storeResult, cards,
                   extractVars, bannerVars>>

\* The body is read: lines 141-157, up to the await of the insert.
DecodeResolve(i, decoded) ==
    /\ pc[i] \in {"json", "text"}
    /\ LET key == extractCardKey(decoded)
       IN  \/ /\ decoded.t = "invalid"
              /\ Throw(i, ErrJsonSyntax)
              /\ UNCHANGED <<cardKey, extractCalls, insertAttempts>>
           \/ /\ decoded.t # "invalid"
              /\ key = <<>>
              /\ extractCalls' = [extractCalls EXCEPT ![i] = @ + 1]
              /\ Return(i, Failure(<<"api_card_missing">>))
              /\ UNCHANGED <<cardKey, insertAttempts>>
           \/ /\ decoded.t # "invalid"
              /\ key # <<>>
              /\ extractCalls' = [extractCalls EXCEPT ![i] = @ + 1]
              /\ cardKey' = [cardKey EXCEPT ![i] = key]
              /\ insertAttempts' = [insertAttempts EXCEPT ![i] = @ + 1]
              /\ Suspend(i, "insert")
    /\ UNCHANGED <<productOf, config, response, httpCalls, decodes, storeResult,
                   cards, extractVars, bannerVars>>

\* The store answers the insert: lines 153-165.
InsertResolve(i, answer) ==
    /\ pc[i] = "insert"
    /\ storeResult' = [storeResult EXCEPT ![i] = answer]
    /\ \/ /\ answer.kind = "accepted"
          /\ cards' = Append(cards, [productId |-> productOf[i], cardKey |-> cardKey[i]])
       \/ /\ answer.kind = "rejected"
          /\ UNCHANGED cards
    /\ Return(i, InsertVerdict(answer, cardKey[i]))
    /\ UNCHANGED <<productOf, config, response, cardKey, httpCalls, decodes,
                   extractCalls, insertAttempts, extractVars, bannerVars>>

NextPull ==
    \E i \in Invocations :
        \/ \E p \in Products : Call(i, p)
        \/ \E answer \in SelectAnswers(productOf[i]) : SelectResolve(i, answer)
        \/ \E answer \in FetchAnswers : FetchResolve(i, answer)
        \/ \E body \in (IF pc[i] = "json" THEN JsonBodies
                          ELSE { JStr(text) : text \in TextBodies }) :
              DecodeResolve(i, body)
        \/ \E answer \in InsertAnswers(cards,
                 [productId |-> productOf[i], cardKey |-> cardKey[i]]) :
              InsertResolve(i, answer)

SpecPull == InitPull /\ [][NextPull]_vars

----------------------------------------------------------------------------
(* Properties of pullOneCardFromApi *)

Returned(i) == pc[i] = "returned"
Ended(i) == pc[i] \in {"returned", "threw"}
OutcomeOf(i) == outcomes[i][1]
RowOf(i) == [productId |-> productOf[i], cardKey |-> cardKey[i]]
Duplicate == <<"api_card_duplicate">>

\* C1: no exception escapes an invocation; every failure of a collaborator
\* ends in a returned outcome with ok = false and an error string.
NeverRaises ==
    \A i \in Invocations :
        /\ pc[i] # "threw"
        /\ thrown[i] = <<>>
        /\ Ended(i) => Len(outcomes[i]) = 1

\* At most one GET and one insert per invocation, the insert only after a 2xx
\* response that yielded a non-empty key, and never a second outcome.
AtMostOneGetOneInsert ==
    \A i \in Invocations :
        /\ Len(httpCalls[i]) <= 1
        /\ insertAttempts[i] <= 1
        /\ insertAttempts[i] = 1 =>
               /\ Len(httpCalls[i]) = 1
               /\ response[i] \in 200..299
               /\ cardKey[i] # <<>>
        /\ Len(outcomes[i]) + Len(thrown[i]) <= 1

\* C8: no retries, and every invocation that ends reports exactly one outcome.
NoRetriesOneOutcome ==
    /\ AtMostOneGetOneInsert
    /\ \A i \in Invocations : Ended(i) => Len(outcomes[i]) = 1

\* C3: a returned invocation whose config is disabled, has no url, or has a
\* malformed url (in that priority) reports api_disabled (skipped),
\* api_url_missing, api_url_invalid, and has issued no GET, read no body and
\* attempted no insert; skipped is set for api_disabled alone.
ConfigErrorsShortCircuit ==
    \A i \in Invocations :
        Returned(i) =>
            LET cfg == config[i]
                o == OutcomeOf(i)
                untouched == /\ httpCalls[i] = <<>>
                             /\ decodes[i] = 0
                             /\ insertAttempts[i] = 0
                             /\ storeResult[i] = NoAnswer
            IN  /\ ~cfg.enabled =>
                       o = Skipped(<<"api_disabled">>) /\ untouched
                /\ (cfg.enabled /\ cfg.url = <<>>) =>
                       o = Failure(<<"api_url_missing">>) /\ untouched
                /\ (cfg.enabled /\ cfg.url # <<>> /\ ~ParsesAsUrl(cfg.url)) =>
                       o = Failure(<<"api_url_invalid">>) /\ untouched
                /\ o.skipped => o.error = <<"api_disabled">>

\* One invocation is disabled with a malformed url, another enabled with one.
ConfigErrorsWitness ==
    \E i, j \in Invocations :
        /\ Returned(i) /\ ~config[i].enabled /\ config[i].url = <<"u">>
        /\ OutcomeOf(i) = Skipped(<<"api_disabled">>)
        /\ Returned(j) /\ config[j].enabled /\ config[j].url = <<"u">>
        /\ OutcomeOf(j) = Failure(<<"api_url_invalid">>)

\* C5: an invocation that received a non-2xx status s has returned
\* api_request_failed_<s>, without decoding the body, calling the extractor
\* or attempting an insert.
NonOkStatusReported ==
    \A i \in Invocations :
        (response[i] # 0 /\ response[i] \notin 200..299) =>
            /\ Returned(i)
            /\ outcomes[i] =
                   << Failure(<<"api_request_failed_", ToString(response[i])>>) >>
            /\ decodes[i] = 0
            /\ extractCalls[i] = 0
            /\ insertAttempts[i] = 0

\* A 404 and a 300, each reported with its status.
NonOkStatusWitness ==
    \E i, j \in Invocations :
        /\ response[i] = 404
        /\ OutcomeOf(i).error = <<"api_request_failed_", "404">>
        /\ response[j] = 300
        /\ OutcomeOf(j).error = <<"api_request_failed_", "300">>

\* C4: a rejected insert is reported as api_card_duplicate exactly when the
\* store rejected it for uniqueness; any other rejection passes the store's
\* message through.
DuplicateOnlyForUniqueness ==
    \A i \in Invocations :
        (Returned(i) /\ storeResult[i].kind = "rejected") =>
            /\ OutcomeOf(i).error = Duplicate <=> storeResult[i].violation = "unique"
            /\ (storeResult[i].violation # "unique"
                    /\ storeResult[i].error.message # <<>>) =>
                   OutcomeOf(i).error = storeResult[i].error.message

\* Two ended invocations whose upstream returned the same key for the same product.
SameKeyPair(i, j) ==
    /\ i # j
    /\ Ended(i) /\ Ended(j)
    /\ insertAttempts[i] = 1 /\ insertAttempts[j] = 1
    /\ RowOf(i) = RowOf(j)

RowsWith(row) == { n \in 1..Len(cards) : cards[n] = row }

OneWinnerOneDuplicate(i, j) ==
    /\ \/ OutcomeOf(i) = Success(cardKey[i]) /\ OutcomeOf(j) = Failure(Duplicate)
       \/ OutcomeOf(j) = Success(cardKey[j]) /\ OutcomeOf(i) = Failure(Duplicate)
    /\ Cardinality(RowsWith(RowOf(i))) = 1

OnlyUniquenessRejection(i) ==
    storeResult[i].kind = "accepted" \/ storeResult[i].violation = "unique"

\* The key was not in the table before the pair: no third invocation stored it.
KeyFreshFor(i, j) ==
    \A m \in Invocations \ {i, j} :
        ~(storeResult[m].kind = "accepted" /\ RowOf(m) = RowOf(i))

RowsMatchSuccesses ==
    LET winners == { i \in Invocations : Returned(i) /\ OutcomeOf(i).ok }
    IN  /\ \A i \in Invocations :
               Returned(i) =>
                   /\ OutcomeOf(i).ok <=> storeResult[i].kind = "accepted"
                   /\ OutcomeOf(i).ok =>
                          LET key == OutcomeOf(i).cardKey
                          IN  /\ key = cardKey[i]
                              /\ key # <<>>
                              /\ key[1] \notin WhiteSpace
                              /\ key[Len(key)] \notin WhiteSpace
                              /\ Cardinality(RowsWith(RowOf(i))) = 1
                   /\ (extractCalls[i] = 1 /\ cardKey[i] = <<>>) =>
                          /\ OutcomeOf(i) = Failure(<<"api_card_missing">>)
                          /\ insertAttempts[i] = 0
        /\ \A n \in 1..Len(cards) : \E i \in winners : RowOf(i) = cards[n]
        /\ Len(cards) = Cardinality(winners)

\* The key " A " arrives in a JSON body and is stored and returned as "A",
\* while another invocation got a 200 without a key.
RowsMatchWitness ==
    \E i, j \in Invocations :
        /\ Returned(i) /\ OutcomeOf(i) = Success(<<"A">>)
        /\ cards = << [productId |-> productOf[i], cardKey |-> <<"A">>] >>
        /\ Returned(j) /\ OutcomeOf(j) = Failure(<<"api_card_missing">>)
        /\ response[j] = 200

----------------------------------------------------------------------------
(* Specification of the extractor: one payload, one call *)

InitExtract ==
    /\ payload \in Payloads
    /\ extracted = <<>>
    /\ PullQuiet
    /\ BannerQuiet

\* const cardKey = extractCardKey(payload)
Extract ==
    /\ extracted = <<>>
    /\ extracted' = <<extractCardKey(payload)>>
    /\ UNCHANGED <<payload, pullVars, bannerVars>>

NextExtract == Extract

SpecExtract == InitExtract /\ [][NextExtract]_vars

----------------------------------------------------------------------------
(* Properties of the extractor *)

Min(S) == CHOOSE x \in S : \A y \in S : x <= y

\* The orders the documentation states, written out independently of the code's lists.
StatedDirectOrder == <<"cardKey", "card", "key", "code">>
StatedNestedOrder == <<"data", "result", "item">>

\* The key holds a string that is non-empty after trimming.
Qualifies(p, k) ==
    /\ k \in DOMAIN p.fields
    /\ p.fields[k].t = "str"
    /\ Trim(p.fields[k].s) # <<>>

\* C6: for a mapping payload, the result is the trimmed value of the first of
\* cardKey, card, key, code that holds a string non-empty after trimming,
\* whatever data/result/item hold; only when no direct key qualifies is the
\* result the first non-empty extraction of data, result, item (in that order),
\* and a direct key holding a non-string is never searched.
DirectKeyPrecedence ==
    (extracted # <<>> /\ payload.t = "obj") =>
        LET direct == { i \in 1..Len(StatedDirectOrder) :
                            Qualifies(payload, StatedDirectOrder[i]) }
            nested == { j \in 1..Len(StatedNestedOrder) :
                            extractCardKey(Member(payload, StatedNestedOrder[j])) # <<>> }
        IN  IF direct # {}
            THEN extracted[1] = Trim(payload.fields[StatedDirectOrder[Min(direct)]].s)
            ELSE IF nested # {}
            THEN extracted[1] =
                     extractCardKey(Member(payload, StatedNestedOrder[Min(nested)]))
            ELSE extracted[1] = <<>>

\* A direct key wins over a nested container that also yields a key.
DirectKeyPrecedenceWitness ==
    /\ payload = JObj("code" :> JStr(<<" ", "B", "\n">>)
                      @@ "data" :> JObj("code" :> JStr(<<"C">>)))
    /\ extracted = << <<"B">> >>

\* Elements the scan passes over: whitespace-only strings, numbers, booleans,
\* null and empty containers.
PassedOver(v) ==
    \/ v.t \in {"null", "num", "bool"}
    \/ v.t = "str" /\ \A i \in 1..Len(v.s) : v.s[i] \in WhiteSpace
    \/ v.t = "arr" /\ v.items = <<>>
    \/ v.t = "obj" /\ DOMAIN v.fields = {}

\* C7: for an array payload the result is the extraction of the first element
\* whose extraction is non-empty, the empty string when there is none, and
\* blank strings, numbers, booleans, null and empty containers never stop the scan.
ArrayFirstNonEmpty ==
    (extracted # <<>> /\ payload.t = "arr") =>
        LET items == payload.items
            hits == { i \in 1..Len(items) : extractCardKey(items[i]) # <<>> }
        IN  /\ extracted[1] =
                  IF hits = {} THEN <<>> ELSE extractCardKey(items[Min(hits)])
            /\ \A i \in 1..Len(items) : PassedOver(items[i]) => i \notin hits

\* A blank string is passed over and the second element yields the key.
ArrayFirstNonEmptyWitness ==
    /\ payload = JArr(<< JStr(<<" ">>), JObj("data" :> JStr(<<"C">>)) >>)
    /\ extracted = << <<"C">> >>

----------------------------------------------------------------------------
(* The update check: checkForUpdatesClient *)

\* A version string is the sequence of its dot-separated numbers; the empty
\* sequence is the empty string, which the code treats like null.
NoVersion == <<>>

\* partsA[i] || 0
PartOr0(parts, i) == IF i <= Len(parts) THEN parts[i] ELSE 0

RECURSIVE CompareFrom(_, _, _)
CompareFrom(a, b, i) ==
    IF i > (IF Len(a) >= Len(b) THEN Len(a) ELSE Len(b)) THEN 0
    ELSE IF PartOr0(a, i) > PartOr0(b, i) THEN 1
    ELSE IF PartOr0(a, i) < PartOr0(b, i) THEN -1
    ELSE CompareFrom(a, b, i + 1)

compareVersions(a, b) == CompareFrom(a, b, 1)

\* A tag name as the API reports it: an optional leading "v" and the version;
\* NoTag is a missing or empty name.
NoTag == [v |-> FALSE, parts |-> <<>>]
TagNames ==
    { NoTag, [v |-> TRUE, parts |-> <<1>>], [v |-> TRUE, parts |-> <<1, 0>>],
      [v |-> FALSE, parts |-> <<1, 1>>], [v |-> TRUE, parts |-> <<2>>] }

\* String(name || "").replace(/^v/, "")
StripV(tag) == tag.parts

\* How GitHub may answer: the fetch rejects, or a status with a body that
\* decodes to a tag name or does not decode.
ApiAnswers ==
    { [kind |-> "error", status |-> 0, decodes |-> FALSE, tag |-> NoTag] }
    \cup { [kind |-> "response", status |-> 200, decodes |-> TRUE, tag |-> tg] :
               tg \in TagNames }
    \cup { [kind |-> "response", status |-> st, decodes |-> FALSE, tag |-> NoTag] :
               st \in {200, 404, 500} }

CheckResult(has, current, latest, failed) ==
    [hasUpdate |-> has, currentVersion |-> current, latestVersion |-> latest,
     failed |-> failed]

\* The catch block: hasUpdate false, latestVersion null, an error message.
CheckFailed(current) == CheckResult(FALSE, current, NoVersion, TRUE)

checkForUpdatesClient(current, release, tags) ==
    IF release.kind = "error" THEN CheckFailed(current)
    ELSE IF release.status = 200
    THEN IF ~release.decodes THEN CheckFailed(current)
         ELSE LET latestVersion == StripV(release.tag)
              IN  CheckResult(latestVersion # NoVersion
                                  /\ compareVersions(latestVersion, current) > 0,
                              current, latestVersion, FALSE)
    ELSE IF release.status = 404
    THEN IF tags.kind = "error" THEN CheckFailed(current)
         ELSE IF tags.status = 200
         THEN IF ~tags.decodes THEN CheckFailed(current)
              ELSE LET latestTag == StripV(tags.tag)
                   IN  IF latestTag = NoVersion
                       THEN CheckResult(FALSE, current, NoVersion, FALSE)
                       ELSE CheckResult(compareVersions(latestTag, current) > 0,
                                        current, latestTag, FALSE)
         ELSE CheckFailed(current)
    ELSE CheckFailed(current)

CheckResults(current) ==
    { checkForUpdatesClient(current, release, tags) :
          release \in ApiAnswers, tags \in ApiAnswers }

----------------------------------------------------------------------------
(* UpdateNotification *)

MaxMounts == 3
MaxPending == 2

CurrentVersions == { <<1>>, <<1, 1>> }

\* A test that forgets the dismissed version.
ShouldShowAnyUpdate(result, dismissedVersion) == result.hasUpdate

\* Line 18: result.hasUpdate && result.latestVersion !== dismissedVersion
ShouldShow(result, dismissedVersion) ==
    result.hasUpdate /\ result.latestVersion # dismissedVersion

\* Line 24: the component renders the banner.
BannerShown ==
    mounted /\ updateInfo # <<>> /\ updateInfo[1].hasUpdate /\ ~dismissed

InitBanner ==
    /\ stored = NoVersion
    /\ mounted = FALSE
    /\ mountNo = 0
    /\ currentVersion = <<>>
    /\ updateInfo = <<>>
    /\ dismissed = FALSE
    /\ pending = {}
    /\ qualified = FALSE
    /\ dismissedHere = NoVersion
    /\ ExtractQuiet
    /\ PullQuiet

\* The effect of lines 13-22: read the dismissed version, start the check.
StartCheck(mount, version) ==
    pending' = pending \cup
        { [mount |-> mount, dismissedVersion |-> stored, currentVersion |-> version] }

\* The component mounts with fresh state and its effect runs.
Mount(version) ==
    /\ ~mounted
    /\ mountNo < MaxMounts
    /\ Cardinality(pending) < MaxPending
    /\ mounted' = TRUE
    /\ mountNo' = mountNo + 1
    /\ currentVersion' = version
    /\ updateInfo' = <<>>
    /\ dismissed' = FALSE
    /\ qualified' = FALSE
    /\ dismissedHere' = NoVersion
    /\ StartCheck(mountNo + 1, version)
    /\ UNCHANGED <<stored, extractVars, pullVars>>

\* The currentVersion prop changes and the effect runs again.
ChangeVersion(version) ==
    /\ mounted
    /\ version # currentVersion
    /\ Cardinality(pending) < MaxPending
    /\ currentVersion' = version
    /\ StartCheck(mountNo, version)
    /\ UNCHANGED <<stored, mounted, mountNo, updateInfo, dismissed, qualified,
                   dismissedHere, extractVars, pullVars>>

\* An update check settles; its callback sets state only on the instance that
\* started it.
CheckResolve(e, result) ==
    /\ e \in pending
    /\ pending' = pending \ {e}
    /\ \/ /\ mounted /\ e.mount = mountNo
          /\ ShouldShow(result, e.dismissedVersion)
          /\ updateInfo' = <<result>>
       \/ /\ ~(mounted /\ e.mount = mountNo /\ ShouldShow(result, e.dismissedVersion))
          /\ UNCHANGED updateInfo
    /\ qualified' =
           (qualified \/ (/\ mounted /\ e.mount = mountNo
                          /\ ~result.failed
                          /\ result.hasUpdate
                          /\ result.latestVersion # stored))
    /\ UNCHANGED <<stored, mounted, mountNo, currentVersion, dismissed,
                   dismissedHere, extractVars, pullVars>>

\* handleDismiss, lines 28-33.
Dismiss ==
    /\ BannerShown
    /\ stored' = IF updateInfo[1].latestVersion # NoVersion
                 THEN updateInfo[1].latestVersion ELSE stored
    /\ dismissed' = TRUE
    /\ dismissedHere' = updateInfo[1].latestVersion
    /\ UNCHANGED <<mounted, mountNo, currentVersion, updateInfo, pending, qualified,
                   extractVars, pullVars>>

\* The component unmounts; its state is discarded.
Unmount ==
    /\ mounted
    /\ mounted' = FALSE
    /\ updateInfo' = <<>>
    /\ dismissed' = FALSE
    /\ qualified' = FALSE
    /\ dismissedHere' = NoVersion
    /\ UNCHANGED <<stored, mountNo, currentVersion, pending, extractVars, pullVars>>

NextBanner ==
    \/ \E version \in CurrentVersions : Mount(version)
    \/ \E version \in CurrentVersions : ChangeVersion(version)
    \/ \E e \in pending : \E result \in CheckResults(e.currentVersion) :
           CheckResolve(e, result)
    \/ Dismiss
    \/ Unmount

SpecBanner == InitBanner /\ [][NextBanner]_vars

\* C10: the banner shows only an update that a successful check reported and
\* whose version differs from the stored dismissed version; after a dismissal
\* of V, V is stored and the banner stays hidden for the rest of the mount;
\* and in any mount the banner shows exactly when a check of that mount
\* reported an update other than the dismissed version and the user has not
\* dismissed it.
DismissalIsPerVersion ==
    /\ BannerShown =>
           /\ ~updateInfo[1].failed
           /\ updateInfo[1].latestVersion # NoVersion
           /\ updateInfo[1].latestVersion # stored
    /\ (mounted /\ dismissedHere # NoVersion) =>
           /\ ~BannerShown
           /\ stored = dismissedHere
    /\ mounted => (BannerShown <=> (qualified /\ ~dismissed))

\* On a later mount, with 1.1 dismissed, the banner shows again for 2.
DismissalWitness ==
    /\ mountNo >= 2
    /\ stored = <<1, 1>>
    /\ BannerShown
    /\ updateInfo[1].latestVersion = <<2>>

====
